---- MODULE Spec2Model ----
(***************************************************************************)
(* A model of the pass assembly and signing pipeline of passkit-generator: *)
(* the model loader (src/src/parser.ts), the Pass class and the draft      *)
(* factory createPass (src/src/pass.ts).                                   *)
(*                                                                         *)
(* JavaScript values are represented as follows.                           *)
(*   - a JSON object whose key order matters (pass.json, the props, the    *)
(*     overrides) is a sequence of entries [k, v, o]: k the key, v a       *)
(*     scalar value (a string), o the nested object of a category key;     *)
(*   - the contents of a binary file is a sequence of tokens <<tag,a,b>>;  *)
(*     Buffer.concat is \o;                                                *)
(*   - a bundle is a function from file name to contents;                  *)
(*   - an array of objects is the sequence of its elements, kept in the    *)
(*     nested slot of its entry; a value handed to a builder method is a   *)
(*     record whose field t is its JavaScript type.                        *)
(***************************************************************************)
EXTENDS Integers, Sequences, FiniteSets, TLC

-----------------------------------------------------------------------------
(* Bounds of the model *)

\* generate() may be called this many times on one instance
MaxGenerate == 2

\* the builder methods that take a list or a date may be called this many
\* times on one instance
MaxCalls == 3

\* a list handed to a builder method has at most this many elements
MaxItems == 2

\* a staged translation mapping has at most this many placeholders
MaxPairs == 1

-----------------------------------------------------------------------------
(* JavaScript objects with ordered keys *)

\* the value `undefined`
Undef == "<undefined>"

\* the scalar slot of an entry whose value is a nested object
ObjMark == "<object>"

\* the nested-object slot of an entry whose value is a scalar
NoPayload == [transitType |-> Undef]

Scalar(key, value) == [k |-> key, v |-> value, o |-> NoPayload]

Nested(key, payload) == [k |-> key, v |-> ObjMark, o |-> payload]

\* the scalar slot of an entry whose value is an array
ArrMark == "<array>"

\* an entry whose value is an array of objects
Array(key, items) ==
    [k |-> key, v |-> ArrMark, o |-> [transitType |-> Undef, items |-> items]]

\* an entry whose value is one object taken from an array
Object(key, item) ==
    [k |-> key, v |-> ObjMark, o |-> [transitType |-> Undef, items |-> <<item>>]]

\* the values callers hand to the builder methods: t is the type of the
\* value, and an object has its own keys beside t
JsNull == [t |-> "null"]
JsUndefined == [t |-> "undefined"]
JsNumber == [t |-> "number"]
JsString(text) == [t |-> "string", value |-> text]
JsDate(value) == [t |-> "Date", value |-> value]
EmptyObject == [t |-> "object"]

\* Object.keys(value), for a value that is neither null nor undefined
ObjectKeys(value) ==
    IF value.t = "string" THEN (IF value.value = "" THEN {} ELSE {"0"})
    ELSE (DOMAIN value) \ {"t"}

\* Pass._fields, the names of the five slots of display fields, in the
\* order the constructor and _patch visit them
FieldNames ==
    <<"primaryFields", "secondaryFields", "auxiliaryFields", "backFields",
      "headerFields">>

FieldSlots == {FieldNames[i] : i \in 1..Len(FieldNames)}

\* a display field; a field without a value has value Undef
Field(key, value) == [key |-> key, value |-> value]

\* the five slots, all empty
NoFields == [slot \in FieldSlots |-> <<>>]

\* passCore[type][fieldName] || []
SlotOf(payload, fieldName) ==
    IF fieldName \in DOMAIN payload THEN payload[fieldName] ELSE <<>>

\* Object.keys(obj)
Keys(obj) == [i \in 1..Len(obj) |-> obj[i].k]

\* key in obj
Has(obj, key) == \E i \in 1..Len(obj) : obj[i].k = key

\* obj[key], `undefined` for a key the object does not have
Get(obj, key) ==
    IF Has(obj, key)
    THEN LET i == CHOOSE j \in 1..Len(obj) : obj[j].k = key IN obj[i].v
    ELSE Undef

\* the nested object obj[key]
GetNested(obj, key) ==
    LET i == CHOOSE j \in 1..Len(obj) : obj[j].k = key IN obj[i].o

\* the elements of the array obj[key], none if obj has no array there
ItemsOf(obj, key) ==
    IF Get(obj, key) = ArrMark THEN GetNested(obj, key).items ELSE <<>>

\* obj[e.k] = e : an existing key keeps its position, a new key goes last
Put(obj, e) ==
    IF Has(obj, e.k)
    THEN [i \in 1..Len(obj) |-> IF obj[i].k = e.k THEN e ELSE obj[i]]
    ELSE Append(obj, e)

\* delete obj[key]
Del(obj, key) == SelectSeq(obj, LAMBDA e : e.k # key)

\* Object.assign(target, src), also the spread {...target, ...src}
RECURSIVE Assign(_, _)
Assign(target, src) ==
    IF src = <<>> THEN target
    ELSE Assign(Put(target, Head(src)), Tail(src))

\* a value is truthy: neither undefined nor the empty string
Truthy(value) == value # Undef /\ value # ""

\* JSON.stringify: a key whose value is undefined is left out
JsonStringify(obj) == SelectSeq(obj, LAMBDA e : e.v # Undef)

\* the bytes of a file that is not JSON
Unparsable == << Scalar("{", "") >>

\* JSON.parse succeeds on the bytes
JsonParses(bytes) == bytes # Unparsable

\* JSON.parse of bytes it accepts
JsonParse(bytes) == bytes

-----------------------------------------------------------------------------
(* Texts: file names and keys *)

\* the pieces a modelled text is made of, for prefix and substring tests
Parts(text) ==
    CASE text = "icon.png" -> <<"icon", ".png">>
      [] text = "personalizationLogo.png" -> <<"personalizationLogo", ".png">>
      [] text = "couponBook" -> <<"coupon", "Book">>
      [] text = "pass.json" -> <<"pass", ".json">>
      [] text = "personalization.json" -> <<"personalization", ".json">>
      [] text = "manifest.json" -> <<"manifest", ".json">>
      [] text = ".DS_Store" -> <<".", "DS_Store">>
      [] text = "fr.lproj" -> <<"fr", ".lproj">>
      [] text = "fr.lproj/pass.strings" -> <<"fr", ".lproj", "/", "pass", ".strings">>
      [] text = "fr.lproj/.DS_Store" -> <<"fr", ".lproj", "/", ".", "DS_Store">>
      [] OTHER -> <<text>>

\* text.startsWith(prefix)
StartsWith(text, prefix) == Parts(text)[1] = prefix

\* text contains piece
Includes(text, piece) == \E i \in 1..Len(Parts(text)) : Parts(text)[i] = piece

\* text.toLowerCase(), for the modelled texts
ToLowerCase(text) ==
    CASE text = "PKBarcodeFormatQR" -> "pkbarcodeformatqr"
      [] text = "PKBarcodeFormatPDF417" -> "pkbarcodeformatpdf417"
      [] text = "PKBarcodeFormatAztec" -> "pkbarcodeformataztec"
      [] text = "PKBarcodeFormatCode128" -> "pkbarcodeformatcode128"
      [] text = "Signature" -> "signature"
      [] OTHER -> text

\* path.parse(name).ext is not empty
HasExt(name) ==
    /\ Len(Parts(name)) > 1
    /\ Parts(name)[Len(Parts(name))] \in {".png", ".json", ".lproj", ".strings"}

\* the language codes callers stage and templates are localized in
Langs == {"fr"}

\* `${lang}.lproj`
LprojDir(lang) == lang \o ".lproj"

\* path.join(dir, fileName).replace(/\\/, "/")
FullPath(dir, fileName) == dir \o "/" \o fileName

-----------------------------------------------------------------------------
(* Schemas: validation is a black box that accepts some values *)

PassTypes == {"boardingPass", "eventTicket", "coupon", "generic", "storeCard"}

\* /(boardingPass|eventTicket|coupon|generic|storeCard)/.test(key)
TypeRegexTest(key) == \E t \in PassTypes : Includes(key, t)

\* the keys of propsSchemaMap
PropsSchemaKeys == {"barcodes", "barcode", "beacons", "locations", "nfc"}

NfcValid == "nfc:message+key"
NfcInvalid == "nfc:no-message"

\* Schemas.isValid(value, propsSchemaMap.get(key))
SchemaIsValid(key, value) == key = "nfc" /\ value = NfcValid

\* isValidRGB(value)
IsValidRGB(value) == value \in {"rgb(0,0,0)", "rgb(9,9,9)"}

PassColors == <<"backgroundColor", "foregroundColor", "labelColor">>

\* Schemas.isValid(value, Schemas.TransitType)
TransitTypes ==
    {"PKTransitTypeAir", "PKTransitTypeBoat", "PKTransitTypeBus",
     "PKTransitTypeGeneric", "PKTransitTypeTrain"}

\* the keys Schemas.OverridesSupportedOptions lets through
OverridesWhitelist ==
    {"description", "backgroundColor", "foregroundColor", "labelColor"}

\* the value of a whitelisted key has the shape its schema asks for
BadShape == "<not a string>"

\* Schemas.getValidated(overrides, Schemas.OverridesSupportedOptions): the
\* record without the keys outside the whitelist, or null (ok = FALSE) when a
\* whitelisted key has a value of the wrong shape
GetValidatedOverrides(ovr) ==
    [ok |-> \A i \in 1..Len(ovr) :
                ovr[i].k \in OverridesWhitelist => ovr[i].v # BadShape,
     value |-> SelectSeq(ovr, LAMBDA e : e.k \in OverridesWhitelist)]

\* the formats of barcodesFromUncompleteData, in its order
BarcodeFormats ==
    <<"PKBarcodeFormatQR", "PKBarcodeFormatPDF417", "PKBarcodeFormatAztec",
      "PKBarcodeFormatCode128">>

BarcodeObject(format, message) ==
    [t |-> "object", format |-> format, message |-> message]

\* Schemas.Location: latitude and longitude are required
IsValidLocation(value) == {"latitude", "longitude"} \subseteq DOMAIN value

\* Schemas.Beacon: proximityUUID is required
IsValidBeacon(value) == "proximityUUID" \in DOMAIN value

\* Schemas.Barcode: a message and one of the four formats are required
IsValidBarcode(value) ==
    /\ {"format", "message"} \subseteq DOMAIN value
    /\ \E i \in 1..Len(BarcodeFormats) : value.format = BarcodeFormats[i]
    /\ Truthy(value.message)

\* Schemas.isValid(value, schema) for the schemas of the array elements
IsValid(value, schema) ==
    /\ value.t = "object"
    /\ CASE schema = "Location" -> IsValidLocation(value)
         [] schema = "Beacon" -> IsValidBeacon(value)
         [] schema = "Barcode" -> IsValidBarcode(value)
         [] OTHER -> FALSE

\* Schemas.getValidated(value, Schemas.Barcode): the validated object, or
\* null
GetValidatedBarcode(value) ==
    IF IsValid(value, "Barcode") THEN value ELSE JsNull

\* Schemas.isValid(field, Schemas.Field): a field needs a key and a value
IsValidField(field) == Truthy(field.key) /\ field.value # Undef

\* FieldsArray, the insertion of a field into a slot: it fails with
\* DuplicateKey when the key is in the key set the five slots share, and
\* otherwise appends the field to the slot and adds its key to the set
Insert(slots, keys, slot, field) ==
    IF field.key \in keys
    THEN [ok |-> FALSE, error |-> "DuplicateKey", slots |-> slots, keys |-> keys]
    ELSE [ok |-> TRUE, error |-> "",
          slots |-> [slots EXCEPT ![slot] = Append(@, field)],
          keys |-> keys \cup {field.key}]

\* new FieldsArray(keys, ...initial): the initial fields are inserted one by
\* one into the new slot
RECURSIVE NewFieldsArray(_, _, _, _)
NewFieldsArray(slots, keys, slot, initial) ==
    IF initial = <<>>
    THEN [ok |-> TRUE, error |-> "", slots |-> slots, keys |-> keys]
    ELSE LET r == Insert(slots, keys, slot, Head(initial))
         IN  IF r.ok THEN NewFieldsArray(r.slots, r.keys, slot, Tail(initial))
             ELSE r

-----------------------------------------------------------------------------
(* File contents *)

Img(name) == << <<"raw", "png", name>> >>

\* a pass.strings file of the template
TplStrings == << <<"line", "tpl", "template text">> >>

\* personalization.json: empty, not JSON, JSON the schema rejects, valid
PrsEmpty == <<>>
PrsInvalid == << Scalar("unknownField", "x") >>
PrsValid == << Scalar("requiredPersonalizationFields", "name") >>

\* Schemas.isValid(parsed, Schemas.Personalization)
IsValidPersonalization(parsed) == parsed = PrsValid

EmptyMap == <<>>

\* source without the files named in names
Without(source, names) == [f \in (DOMAIN source) \ names |-> source[f]]

\* getAllFilesWithName(name, files, "startsWith")
GetAllFilesWithName(name, files) == {f \in files : StartsWith(f, name)}

\* hasFilesWithName(name, files, "startsWith")
HasFilesWithName(name, files) == GetAllFilesWithName(name, files) # {}

\* deletePersonalization(source, logosNames): the bundle without
\* personalization.json and without the logos
DeletePersonalization(source, logosNames) ==
    Without(source, logosNames \cup {"personalization.json"})

-----------------------------------------------------------------------------
(* The inputs: templates, overrides, translations *)

\* an optional entry of an object: none for the value undefined
Opt(key, value) == IF value = Undef THEN <<>> ELSE << Scalar(key, value) >>

\* an optional file of a bundle: opt is <<>> or <<contents>>
OptFile(name, opt) == IF opt = <<>> THEN EmptyMap ELSE name :> opt[1]

\* the category keys of the modelled pass.json files, with their contents
TypeLayouts ==
    { <<>>,
      << Nested("storeCard", NoPayload) >>,
      << Nested("couponBook", NoPayload) >> }
    \cup { << Nested("boardingPass", [transitType |-> t]) >> :
             t \in {Undef, "PKTransitTypeAir", "PKTransitTypeHorse"} }

TplColors == {Undef, "rgb(0,0,0)", "tpl-not-a-color"}

TplNfc == {Undef, NfcValid, NfcInvalid}

\* the modelled pass.json files that are JSON
PassJsons ==
    { << Scalar("description", "tpl description") >>
        \o Opt("backgroundColor", bg) \o layout :
        bg \in TplColors, layout \in TypeLayouts }

PassJsonFiles == {<<>>, <<Unparsable>>} \cup { <<pj>> : pj \in PassJsons }

PrsFiles == {<<>>, <<PrsEmpty>>, <<Unparsable>>, <<PrsInvalid>>, <<PrsValid>>}

LogoFiles == {<<>>, << Img("personalizationLogo") >>}

\* the files of one language folder of a template
LangFolders ==
    { OptFile("pass.strings", st) @@ OptFile("logo.png", im) :
        st \in {<<>>, <<TplStrings>>}, im \in {<<>>, << Img("logo") >>} }

\* the localization bundles of the modelled templates
L10nBundles ==
    UNION { [ {LprojDir(l) : l \in ls} -> LangFolders \ {EmptyMap} ] :
              ls \in SUBSET Langs }

\* the root bundle the readers hand over: an icon and the optional files
RootBundle(pj, prs, logo) ==
    ("icon.png" :> Img("icon")) @@ OptFile("pass.json", pj)
        @@ OptFile("personalization.json", prs)
        @@ OptFile("personalizationLogo.png", logo)

PlainPassJson(nfc) ==
    << Scalar("description", "tpl description") >> \o Opt("nfc", nfc)
        \o << Nested("storeCard", NoPayload) >>

\* what getModelFolderContents and getModelBufferContents hand over: a root
\* bundle with an icon, and a localization bundle. The modelled templates
\* vary the metadata, the personalization files and the localization bundle
\* one at a time.
ParsedModels ==
    { [bundle |-> RootBundle(pj, <<>>, <<>>),
       l10nBundle |-> (LprojDir("fr") :> ("pass.strings" :> TplStrings))] :
        pj \in PassJsonFiles }
    \cup { [bundle |-> RootBundle(<<PlainPassJson(nfc)>>, prs, logo),
            l10nBundle |-> EmptyMap] :
             nfc \in TplNfc, prs \in PrsFiles, logo \in LogoFiles }
    \cup { [bundle |-> RootBundle(<<PlainPassJson(Undef)>>, <<>>, <<>>),
            l10nBundle |-> l10n] :
             l10n \in L10nBundles }

\* an optional field list of a category object
OptSlot(fieldName, opt) ==
    IF opt = <<>> THEN <<>> ELSE fieldName :> opt[1]

\* the field lists the modelled templates have in a slot: none, fields with
\* a key of their own, a field the schema rejects among them
PrimaryLists ==
    { <<>>, << <<Field("k1", "v1")>> >>,
      << <<Field("k2", "v2"), Field("k0", Undef), Field("k1", "v1")>> >> }

BackLists ==
    { <<>>, << <<>> >>, << <<Field("k3", "v3")>> >>, << <<Field("k1", "w1")>> >> }

\* the templates that declare display fields
FieldModels ==
    { [bundle |->
         RootBundle(<< << Scalar("description", "tpl description"),
                          Nested("storeCard",
                                 OptSlot("primaryFields", pl)
                                   @@ OptSlot("backFields", bl)
                                   @@ NoPayload) >> >>,
                    <<>>, <<>>),
       l10nBundle |-> EmptyMap] :
        pl \in PrimaryLists, bl \in BackLists }

\* the templates of the instances whose builder methods are called
BuilderModels ==
    { [bundle |-> RootBundle(<<pj>>, <<>>, <<>>), l10nBundle |-> EmptyMap] :
        pj \in { PlainPassJson(Undef),
                 << Scalar("description", "tpl description"),
                    Nested("boardingPass", [transitType |-> "PKTransitTypeAir"]) >> } }

OvrColors == {Undef, "rgb(9,9,9)", "ovr-not-a-color"}

\* the modelled overrides records
OverridesChoices ==
    { Opt("description", "ovr description") \o Opt("backgroundColor", bg) :
        bg \in OvrColors }
    \cup { <<>>, << Scalar("backgroundColor", "ovr-not-a-color") >> }
    \cup { << Scalar("description", BadShape) >>,
           << Scalar("notSupported", "x"), Scalar("description", "ovr description") >> }

Placeholders == {"a", "b"}

Values == {"x"}

\* the translation mappings callers stage: objects of at most MaxPairs
\* placeholders, the keys in insertion order
RECURSIVE MappingsOfLen(_)
MappingsOfLen(n) ==
    IF n = 0 THEN { <<>> }
    ELSE { Append(m, <<ph, val>>) :
             m \in MappingsOfLen(n - 1), ph \in Placeholders, val \in Values }

DistinctKeys(m) == \A i, j \in 1..Len(m) : m[i][1] = m[j][1] => i = j

Mappings ==
    { m \in UNION { MappingsOfLen(n) : n \in 0..MaxPairs } : DistinctKeys(m) }

-----------------------------------------------------------------------------
(* The model loader *)

\* removeHidden(names): the names that do not start with a dot
RemoveHidden(names) == {f \in names : ~StartsWith(f, ".")}

\* /(manifest|signature)/.test(name)
AutogeneratedTest(name) == Includes(name, "manifest") \/ Includes(name, "signature")

\* source restricted to the files named in names
Only(source, names) == [f \in (DOMAIN source) \cap names |-> source[f]]

\* what a reader returns: the error it throws, or the PartitionedBundle
ReadFailed(e) ==
    [ok |-> FALSE, error |-> e,
     contents |-> [bundle |-> EmptyMap, l10nBundle |-> EmptyMap]]

ReadOk(b, l10n) ==
    [ok |-> TRUE, error |-> "", contents |-> [bundle |-> b, l10nBundle |-> l10n]]

\* getModelFolderContents(model): model.root are the entries of the folder
\* with the contents of its files, model.folders the files of its
\* localization folders; a folder that cannot be read gives ENOENT
GetModelFolderContents(model) ==
    LET filteredFiles ==
          {f \in RemoveHidden(DOMAIN model.root \cup DOMAIN model.folders) :
              ~AutogeneratedTest(ToLowerCase(f)) /\ HasExt(f)}
        isModelInitialized ==
          filteredFiles # {} /\ HasFilesWithName("icon", filteredFiles)
        rawBundleFiles == {f \in filteredFiles : ~Includes(f, ".lproj")}
        l10nFolders == {f \in filteredFiles : Includes(f, ".lproj")}
        folder(dir) ==
          Only(model.folders[dir],
               {f \in RemoveHidden(DOMAIN model.folders[dir]) :
                   Len(model.folders[dir][f]) > 0})
    IN  IF ~model.readable THEN ReadFailed("MODELF_FILE_NOT_FOUND")
        ELSE IF ~isModelInitialized THEN ReadFailed("MODEL_UNINITIALIZED")
        ELSE ReadOk(Only(model.root, rawBundleFiles),
                    [dir \in l10nFolders |-> folder(dir)])

\* splitBufferBundle(rawBundle): the keys under a localization folder go to
\* the localization bundle by folder and file name, the others to the bundle
SplitBufferBundle(rawBundle) ==
    LET pairs == {<<LprojDir(l), f>> : l \in Langs, f \in {"pass.strings", ".DS_Store"}}
        present == {pr \in pairs : FullPath(pr[1], pr[2]) \in DOMAIN rawBundle}
        dirs == {pr[1] : pr \in present}
    IN  [bundle |-> Only(rawBundle, {f \in DOMAIN rawBundle : ~Includes(f, ".lproj")}),
         l10nBundle |->
            [dir \in dirs |->
                [f \in {pr[2] : pr \in {q \in present : q[1] = dir}} |->
                    rawBundle[FullPath(dir, f)]]]]

\* getModelBufferContents(model): model.files maps each key to its buffer,
\* model.nulls are the keys whose value is null instead
GetModelBufferContents(model) ==
    LET rawBundle ==
          Only(model.files,
               {f \in RemoveHidden(DOMAIN model.files) :
                   ~AutogeneratedTest(f) /\ f \notin model.nulls})
        bundleKeys == DOMAIN rawBundle
        isModelInitialized ==
          bundleKeys # {} /\ HasFilesWithName("icon", bundleKeys)
        split == SplitBufferBundle(rawBundle)
    IN  IF ~isModelInitialized THEN ReadFailed("MODEL_UNINITIALIZED")
        ELSE ReadOk(split.bundle, split.l10nBundle)

\* the reader getModelContents chooses for the model: the one of folders
\* for a string, the one of buffers for an object with keys
ReadModel(model) ==
    IF model.kind = "folder" THEN GetModelFolderContents(model)
    ELSE IF model.kind = "buffers" /\ DOMAIN model.files # {}
    THEN GetModelBufferContents(model)
    ELSE ReadFailed("MODEL_NOT_VALID")

\* GetModelContents without the test that the model is initialized
GetModelContentsUntested(parsed) ==
    LET modelFiles == DOMAIN parsed.bundle
        prs == "personalization.json"
        logoFullNames == GetAllFilesWithName("personalizationLogo", modelFiles)
        pruned == [parsed EXCEPT
                     !.bundle = DeletePersonalization(parsed.bundle, logoFullNames)]
    IN  [ok |-> TRUE, error |-> "",
         contents |->
           IF prs \notin modelFiles THEN parsed
           ELSE IF ~(logoFullNames # {} /\ Len(parsed.bundle[prs]) > 0)
           THEN pruned
           ELSE IF ~JsonParses(parsed.bundle[prs]) THEN pruned
           ELSE IF ~IsValidPersonalization(JsonParse(parsed.bundle[prs]))
           THEN pruned
           ELSE parsed]

\* getModelContents, from the bundles its readers hand over: the error it
\* throws, or the PartitionedBundle it returns
GetModelContents(parsed) ==
    LET modelFiles == DOMAIN parsed.bundle
        isModelInitialized ==
            "pass.json" \in modelFiles /\ HasFilesWithName("icon", modelFiles)
        prs == "personalization.json"
        logoFullNames == GetAllFilesWithName("personalizationLogo", modelFiles)
        pruned == [parsed EXCEPT
                     !.bundle = DeletePersonalization(parsed.bundle, logoFullNames)]
    IN  IF ~isModelInitialized
        THEN [ok |-> FALSE, error |-> "MODEL_UNINITIALIZED", contents |-> parsed]
        ELSE [ok |-> TRUE, error |-> "",
              contents |->
                IF prs \notin modelFiles THEN parsed
                ELSE IF ~(logoFullNames # {} /\ Len(parsed.bundle[prs]) > 0)
                THEN pruned
                ELSE IF ~JsonParses(parsed.bundle[prs]) THEN pruned
                ELSE IF ~IsValidPersonalization(JsonParse(parsed.bundle[prs]))
                THEN pruned
                ELSE parsed]

\* getModelContents(model), from the model it is called with
GetModelContentsOf(model) ==
    LET read == ReadModel(model)
    IN  IF read.ok THEN GetModelContents(read.contents) ELSE read

\* the names of the entries at the root of the modelled models
RootNames ==
    {"pass.json", "icon.png", "icon", ".DS_Store", "manifest.json", "Signature",
     "personalization.json"}

\* the contents of the file of a model with the name
FileContents(name) ==
    CASE name = "pass.json" -> PlainPassJson(Undef)
      [] name = "personalization.json" -> PrsValid
      [] name = "icon.png" -> Img("icon")
      [] OTHER -> Img(name)

\* the models that are a path: a folder that cannot be read, or a folder
\* with some of the root entries and at most one localization folder
FolderModels ==
    { [kind |-> "folder", readable |-> FALSE, root |-> EmptyMap,
       folders |-> EmptyMap] }
    \cup { [kind |-> "folder", readable |-> TRUE,
            root |-> [f \in names |-> FileContents(f)],
            folders |-> l10n] :
             names \in SUBSET RootNames,
             l10n \in { EmptyMap,
                        "fr.lproj" :> (("pass.strings" :> TplStrings)
                                         @@ (".DS_Store" :> Img("ds"))),
                        "fr.lproj" :> ("pass.strings" :> <<>>) } }

\* the models that are an object of buffers, the empty object among them;
\* the value of pass.json may be null
BufferModels ==
    { [kind |-> "buffers",
       files |-> [f \in names |-> FileContents(f)] @@ l10n,
       nulls |-> nulls] :
        names \in SUBSET RootNames, nulls \in {{}, {"pass.json"}},
        l10n \in { EmptyMap, "fr.lproj/pass.strings" :> TplStrings } }

\* the models getModelContents is called with; a model of kind "invalid" is
\* neither a string nor an object
RawModels == FolderModels \cup BufferModels \cup { [kind |-> "invalid"] }

-----------------------------------------------------------------------------
(* The state *)

VARIABLES
    phase,            \* "start", "loaded" (a model is loaded), "live" (a Pass
                      \* instance exists), "dead" (loading or construction threw)
    template,         \* the PartitionedBundle as getModelContents returned it
    overrides,        \* options.overrides as given to the constructor
    bundle,           \* Pass.bundle
    l10nBundles,      \* Pass.l10nBundles, the l10nBundle object of the model
    passCore,         \* Pass.passCore
    props,            \* Pass[passProps]
    type,             \* Pass.type
    transitType,      \* Pass[transitType]
    l10nTranslations, \* Pass.l10nTranslations
    fields,           \* the five FieldsArray of the instance, by slot name
    fieldsKeys,       \* Pass.fieldsKeys, the key set the five slots share
    calls,            \* the number of calls of list and date builders made
    generated,        \* the number of generate() calls made on the instance
    ret,              \* what the last call returned or threw
    factory           \* what createPass did

vars == <<phase, template, overrides, bundle, l10nBundles, passCore, props,
          type, transitType, l10nTranslations, fields, fieldsKeys, calls,
          generated, ret, factory>>

passVars == <<bundle, l10nBundles, passCore, props, type, transitType,
              l10nTranslations, fields, fieldsKeys, calls, generated>>

\* a call's outcome: op the operation, kind "this", "stream" or "error";
\* a stream carries the entries of the archive
Returned(op, kind, error, archive) ==
    [op |-> op, kind |-> kind, error |-> error, archive |-> archive]

Threw(op, error) == Returned(op, "error", error, EmptyMap)

\* the outcome of a call together with the argument it was made with
Called(op, arg, kind, error) ==
    [op |-> op, kind |-> kind, error |-> error, archive |-> EmptyMap,
     arg |-> arg]

NoFactory ==
    [called |-> FALSE, modelLoad |-> "", certLoad |-> "",
     constructing |-> FALSE, error |-> "", returned |-> FALSE]

Init ==
    /\ phase = "start"
    /\ template = [bundle |-> EmptyMap, l10nBundle |-> EmptyMap]
    /\ overrides = <<>>
    /\ bundle = EmptyMap
    /\ l10nBundles = EmptyMap
    /\ passCore = <<>>
    /\ props = <<>>
    /\ type = Undef
    /\ transitType = ""
    /\ l10nTranslations = EmptyMap
    /\ fields = NoFields
    /\ fieldsKeys = {}
    /\ calls = 0
    /\ generated = 0
    /\ ret = Returned("none", "this", "", EmptyMap)
    /\ factory = NoFactory

\* await getModelContents(model), for a model among models
LoadModelFrom(models) ==
    /\ phase = "start"
    /\ ~factory.called
    /\ \E parsed \in models :
         LET r == GetModelContents(parsed) IN
         IF r.ok
         THEN /\ phase' = "loaded"
              /\ template' = r.contents
              /\ ret' = Returned("getModelContents", "this", "", EmptyMap)
         ELSE /\ phase' = "dead"
              /\ template' = template
              /\ ret' = Threw("getModelContents", r.error)
    /\ UNCHANGED <<overrides, passVars, factory>>

LoadModel == LoadModelFrom(ParsedModels)

\* await getModelContents(model), the model kept for the caller
getModelContents ==
    /\ phase = "start"
    /\ ~factory.called
    /\ \E model \in RawModels :
         LET r == GetModelContentsOf(model) IN
         IF r.ok
         THEN /\ phase' = "loaded"
              /\ template' = r.contents
              /\ ret' = Called("getModelContents", model, "this", "")
         ELSE /\ phase' = "dead"
              /\ template' = template
              /\ ret' = Called("getModelContents", model, "error", r.error)
    /\ UNCHANGED <<overrides, passVars, factory>>

-----------------------------------------------------------------------------
(* The Pass constructor *)

\* Object.keys(passCore).find(key => /.../.test(key))
FindType(core) ==
    IF \E i \in 1..Len(core) : TypeRegexTest(core[i].k)
    THEN LET first == CHOOSE i \in 1..Len(core) :
                        /\ TypeRegexTest(core[i].k)
                        /\ \A j \in 1..(i - 1) : ~TypeRegexTest(core[j].k)
         IN core[first].k
    ELSE Undef

\* the reduce over the keys of pass.json: the category key left out, a key
\* without a schema taken as it is, a key with a schema taken if valid
RECURSIVE ValidatedPassKeys(_, _, _)
ValidatedPassKeys(core, passType, acc) ==
    IF core = <<>> THEN acc
    ELSE LET current == Head(core)
             next ==
               IF current.k = passType THEN acc
               ELSE IF current.k \notin PropsSchemaKeys THEN Put(acc, current)
               ELSE Put(acc, Scalar(current.k,
                          IF SchemaIsValid(current.k, current.v) /\ Truthy(current.v)
                          THEN current.v ELSE Undef))
         IN ValidatedPassKeys(Tail(core), passType, next)

\* MergeProps with the two spreads in the other order: the model's value wins
MergePropsModelLast(validatedPassKeys, validOverrides) ==
    Assign(Assign(<<>>, validOverrides), validatedPassKeys)

\* this[passProps] = {...validatedPassKeys, ...validOverrides}
MergeProps(validatedPassKeys, validOverrides) ==
    Assign(Assign(<<>>, validatedPassKeys), validOverrides)

\* the transit type the constructor takes from the model
ModelTransitType(core, passType) ==
    IF passType = "boardingPass" /\ Truthy(GetNested(core, passType).transitType)
    THEN GetNested(core, passType).transitType
    ELSE ""

\* the loop over _fields that ends the constructor: each slot becomes a
\* FieldsArray over the shared key set, holding the valid fields the model
\* has under the slot's name
RECURSIVE ConstructFields(_, _, _, _)
ConstructFields(payload, names, slots, keys) ==
    IF names = <<>>
    THEN [ok |-> TRUE, error |-> "", slots |-> slots, keys |-> keys]
    ELSE LET initial == SelectSeq(SlotOf(payload, Head(names)), IsValidField)
             r == NewFieldsArray(slots, keys, Head(names), initial)
         IN  IF r.ok THEN ConstructFields(payload, Tail(names), r.slots, r.keys)
             ELSE r

\* new Pass(options): the error thrown, or the fields of the instance
NewPass(model, ovr, shapeOk) ==
    LET core == JsonParse(model.bundle["pass.json"])
        validOverrides == GetValidatedOverrides(ovr)
        passType == FindType(core)
        made == ConstructFields(GetNested(core, passType), FieldNames,
                                NoFields, {})
        failed(e) == [ok |-> FALSE, error |-> e, passCore |-> <<>>, props |-> <<>>,
                      type |-> Undef, transitType |-> "",
                      fields |-> NoFields, fieldsKeys |-> {}]
    IN  IF ~shapeOk THEN failed("REQUIR_VALID_FAILED")
        ELSE IF ~JsonParses(model.bundle["pass.json"])
        THEN failed("PASSFILE_VALIDATION_FAILED")
        ELSE IF ~validOverrides.ok THEN failed("OVV_KEYS_BADFORMAT")
        ELSE IF passType = Undef THEN failed("NO_PASS_TYPE")
        ELSE IF ~made.ok THEN failed(made.error)
        ELSE [ok |-> TRUE, error |-> "", passCore |-> core,
              props |-> MergeProps(ValidatedPassKeys(core, passType, <<>>),
                                   validOverrides.value),
              type |-> passType,
              transitType |-> ModelTransitType(core, passType),
              fields |-> made.slots, fieldsKeys |-> made.keys]

\* new Pass(options), for overrides among ovrs
ConstructWith(ovrs) ==
    /\ phase = "loaded"
    /\ \E ovr \in ovrs, shapeOk \in BOOLEAN :
         LET r == NewPass(template, ovr, shapeOk) IN
         IF r.ok
         THEN /\ phase' = "live"
              /\ overrides' = ovr
              /\ bundle' = template.bundle
              /\ l10nBundles' = template.l10nBundle
              /\ passCore' = r.passCore
              /\ props' = r.props
              /\ type' = r.type
              /\ transitType' = r.transitType
              /\ fields' = r.fields
              /\ fieldsKeys' = r.fieldsKeys
              /\ ret' = Returned("new Pass", "this", "", EmptyMap)
         ELSE /\ phase' = "dead"
              /\ UNCHANGED <<overrides, bundle, l10nBundles, passCore, props,
                             type, transitType, fields, fieldsKeys>>
              /\ ret' = Threw("new Pass", r.error)
    /\ UNCHANGED <<template, l10nTranslations, generated, calls, factory>>

Construct == ConstructWith(OverridesChoices)

-----------------------------------------------------------------------------
(* The builder methods *)

\* the translations argument of localize: an object, undefined, or a value
\* that is neither
LocalizeArgs ==
    { [kind |-> "object", value |-> m] : m \in Mappings }
    \cup { [kind |-> "undefined", value |-> <<>>],
           [kind |-> "string", value |-> <<>>] }

\* localize(lang, translations): this.l10nTranslations afterwards
Localize(translationsByLang, lang, arg) ==
    IF Truthy(lang) /\ arg.kind \in {"object", "undefined"}
    THEN (lang :> arg.value) @@ translationsByLang
    ELSE translationsByLang

localize ==
    /\ phase = "live"
    /\ \E lang \in Langs \cup {""}, arg \in LocalizeArgs :
         l10nTranslations' = Localize(l10nTranslations, lang, arg)
    /\ ret' = Returned("builder", "this", "", EmptyMap)
    /\ UNCHANGED <<phase, template, overrides, bundle, l10nBundles, passCore,
                   props, type, transitType, fields, fieldsKeys, calls,
                   generated, factory>>

Null == "<null>"

\* nfc(data): this[passProps] afterwards
Nfc(p, data) ==
    IF data = Null THEN Del(p, "nfc")
    ELSE IF ~(Truthy(data) /\ SchemaIsValid("nfc", data)) THEN p
    ELSE Put(p, Scalar("nfc", data))

\* the outcome of a builder call that returned, with the argument the call
\* was made with when the caller keeps it
BuilderOutcome(op, arg, keepArg) ==
    IF keepArg THEN Called(op, arg, "this", "")
    ELSE Returned("builder", "this", "", EmptyMap)

\* a call of nfc
nfcSeen(keepArg) ==
    /\ phase = "live"
    /\ \E data \in {Null, NfcValid, NfcInvalid} :
         /\ props' = Nfc(props, data)
         /\ ret' = BuilderOutcome("nfc", data, keepArg)
    /\ UNCHANGED <<phase, template, overrides, bundle, l10nBundles, passCore,
                   type, transitType, l10nTranslations, fields, fieldsKeys,
                   calls, generated, factory>>

nfc == nfcSeen(FALSE)

\* set transitType(value): this[transitType] afterwards
SetTransitType(current, value) ==
    IF value \notin TransitTypes
    THEN (IF Truthy(current) THEN current ELSE "")
    ELSE value

\* an assignment to transitType
setTransitTypeSeen(keepArg) ==
    /\ phase = "live"
    /\ \E value \in {"PKTransitTypeBus", "PKTransitTypeHorse", ""} :
         /\ transitType' = SetTransitType(transitType, value)
         /\ ret' = BuilderOutcome("transitType", value, keepArg)
    /\ UNCHANGED <<phase, template, overrides, bundle, l10nBundles, passCore,
                   props, type, l10nTranslations, fields, fieldsKeys, calls,
                   generated, factory>>

setTransitType == setTransitTypeSeen(FALSE)

\* the lists of at most MaxItems elements callers hand to a builder method
RECURSIVE ListsOfLen(_, _)
ListsOfLen(elements, n) ==
    IF n = 0 THEN { <<>> }
    ELSE { Append(l, e) : l \in ListsOfLen(elements, n - 1), e \in elements }

Lists(elements) == UNION { ListsOfLen(elements, n) : n \in 0..MaxItems }

\* what the builder methods that validate their argument leave: the props,
\* or the error thrown
Kept(p) == [threw |-> FALSE, error |-> "", props |-> p]

Raised(e, p) == [threw |-> TRUE, error |-> e, props |-> p]

\* getValidInArray(schemaName, contents): the filter calls Object.keys on
\* every element, which throws a TypeError on null and on undefined
GetValidInArray(schemaName, contents) ==
    IF \E i \in 1..Len(contents) : contents[i].t \in {"null", "undefined"}
    THEN [threw |-> TRUE, valid |-> <<>>]
    ELSE [threw |-> FALSE,
          valid |-> SelectSeq(contents,
                      LAMBDA current : /\ ObjectKeys(current) # {}
                                       /\ IsValid(current, schemaName))]

\* beacons(...data)
Beacons(p, data) ==
    IF data # <<>> /\ data[1] = JsNull THEN Kept(Del(p, "beacons"))
    ELSE LET valid == GetValidInArray("Beacon", data)
         IN  IF valid.threw THEN Raised("TypeError", p)
             ELSE IF Len(valid.valid) > 0
             THEN Kept(Put(p, Array("beacons", valid.valid)))
             ELSE Kept(p)

\* locations(...data)
Locations(p, data) ==
    IF data # <<>> /\ data[1] = JsNull THEN Kept(Del(p, "locations"))
    ELSE LET valid == GetValidInArray("Location", data)
         IN  IF valid.threw THEN Raised("TypeError", p)
             ELSE IF Len(valid.valid) > 0
             THEN Kept(Put(p, Array("locations", valid.valid)))
             ELSE Kept(p)

\* barcodesFromUncompleteData with the formats in another order
BarcodesCode128First(message) ==
    IF ~Truthy(message) THEN <<>>
    ELSE [i \in 1..Len(BarcodeFormats) |->
            GetValidatedBarcode(
                BarcodeObject(BarcodeFormats[Len(BarcodeFormats) + 1 - i], message))]

\* barcodesFromUncompleteData(message), for a string
BarcodesFromUncompleteData(message) ==
    IF ~Truthy(message) THEN <<>>
    ELSE [i \in 1..Len(BarcodeFormats) |->
            GetValidatedBarcode(BarcodeObject(BarcodeFormats[i], message))]

\* barcodes(...data): null resets, a string is completed into one barcode
\* per format, a list is reduced to its objects the schema accepts
Barcodes(p, data) ==
    IF data # <<>> /\ data[1] = JsNull THEN Kept(Del(p, "barcodes"))
    ELSE IF data # <<>> /\ data[1].t = "string"
    THEN LET autogen == BarcodesFromUncompleteData(data[1].value)
         IN  IF Len(autogen) = 0 THEN Kept(p)
             ELSE Kept(Put(p, Array("barcodes", autogen)))
    ELSE LET objects == SelectSeq(data,
                          LAMBDA current : /\ current.t = "object"
                                           /\ GetValidatedBarcode(current) # JsNull
                                           /\ ObjectKeys(GetValidatedBarcode(current)) # {})
             validBarcodes == [i \in 1..Len(objects) |-> GetValidatedBarcode(objects[i])]
         IN  IF Len(validBarcodes) > 0
             THEN Kept(Put(p, Array("barcodes", validBarcodes)))
             ELSE Kept(p)

\* Barcode taking the first of the barcodes whatever the format asked for
BarcodeFirst(p, chosenFormat) ==
    LET barcodes == ItemsOf(p, "barcodes")
    IN  IF chosenFormat = JsNull THEN Kept(Del(p, "barcode"))
        ELSE IF chosenFormat.t # "string" THEN Kept(p)
        ELSE IF chosenFormat.value = "PKBarcodeFormatCode128" THEN Kept(p)
        ELSE IF Len(barcodes) = 0 THEN Kept(p)
        ELSE Kept(Put(p, Object("barcode", barcodes[1])))

\* barcode(chosenFormat)
Barcode(p, chosenFormat) ==
    LET barcodes == ItemsOf(p, "barcodes")
        found(i) == Includes(ToLowerCase(barcodes[i].format),
                             ToLowerCase(chosenFormat.value))
        index == CHOOSE i \in 1..Len(barcodes) :
                    found(i) /\ \A j \in 1..(i - 1) : ~found(j)
    IN  IF chosenFormat = JsNull THEN Kept(Del(p, "barcode"))
        ELSE IF chosenFormat.t # "string" THEN Kept(p)
        ELSE IF chosenFormat.value = "PKBarcodeFormatCode128" THEN Kept(p)
        ELSE IF Len(barcodes) = 0 THEN Kept(p)
        ELSE IF ~\E i \in 1..Len(barcodes) : found(i) THEN Kept(p)
        ELSE Kept(Put(p, Object("barcode", barcodes[index])))

\* dateToW3CString(date): nothing for an invalid date
DateToW3CString(date) ==
    IF date.value = "Invalid Date" THEN Undef ELSE date.value \o "T00:00:00Z"

\* processDate(key, date)
ProcessDate(date) ==
    IF date.t # "Date" THEN Null
    ELSE IF ~Truthy(DateToW3CString(date)) THEN Null
    ELSE DateToW3CString(date)

\* expiration(date)
Expiration(p, date) ==
    IF date = JsNull THEN Kept(Del(p, "expirationDate"))
    ELSE IF Truthy(ProcessDate(date)) /\ ProcessDate(date) # Null
    THEN Kept(Put(p, Scalar("expirationDate", ProcessDate(date))))
    ELSE Kept(p)

\* relevantDate(date)
RelevantDate(p, date) ==
    IF date = JsNull THEN Kept(Del(p, "relevantDate"))
    ELSE IF Truthy(ProcessDate(date)) /\ ProcessDate(date) # Null
    THEN Kept(Put(p, Scalar("relevantDate", ProcessDate(date))))
    ELSE Kept(p)

\* the arguments of the modelled calls
BeaconsArgs ==
    Lists({JsNull, JsUndefined, EmptyObject, [t |-> "object", major |-> "1"],
           [t |-> "object", proximityUUID |-> "uuid-1"]})

LocationsArgs ==
    Lists({JsNull, JsUndefined, [t |-> "object", latitude |-> "48"],
           [t |-> "object", latitude |-> "48", longitude |-> "2"]})

BarcodesArgs ==
    { <<JsString("12345")>>, <<JsString("")>> }
    \cup Lists({JsNull, JsNumber, BarcodeObject("PKBarcodeFormatQR", "m"),
                BarcodeObject("PKBarcodeFormatCode128", "m"),
                BarcodeObject("PKBarcodeFormatQR", "")})

BarcodeArgs ==
    {JsNull, JsNumber} \cup {JsString(BarcodeFormats[i]) : i \in 1..Len(BarcodeFormats)}

DateArgs ==
    {JsNull, JsDate("2026-01-01"), JsDate("Invalid Date"), JsString("2026-01-01")}

\* a call of a builder method that validates its argument: op the method,
\* data the argument, r what the method leaves
BuilderCall(op, data, r) ==
    /\ phase = "live"
    /\ calls < MaxCalls
    /\ calls' = calls + 1
    /\ props' = r.props
    /\ ret' = Called(op, data, IF r.threw THEN "error" ELSE "this", r.error)
    /\ UNCHANGED <<phase, template, overrides, bundle, l10nBundles, passCore,
                   type, transitType, l10nTranslations, fields, fieldsKeys,
                   generated, factory>>

beacons == \E data \in BeaconsArgs : BuilderCall("beacons", data, Beacons(props, data))

locations ==
    \E data \in LocationsArgs : BuilderCall("locations", data, Locations(props, data))

barcodes ==
    \E data \in BarcodesArgs : BuilderCall("barcodes", data, Barcodes(props, data))

barcode ==
    \E chosenFormat \in BarcodeArgs :
        BuilderCall("barcode", chosenFormat, Barcode(props, chosenFormat))

expiration ==
    \E date \in DateArgs : BuilderCall("expiration", date, Expiration(props, date))

relevantDate ==
    \E date \in DateArgs : BuilderCall("relevantDate", date, RelevantDate(props, date))

\* nfc and the transitType setter, their argument kept for the caller
nfcCall == nfcSeen(TRUE)

transitTypeCall == setTransitTypeSeen(TRUE)

\* the fields callers insert
InsertedFields == {Field("k1", "x1"), Field("k4", "x4")}

\* this[slot].push(field)
insertField ==
    /\ phase = "live"
    /\ \E slot \in FieldSlots, field \in InsertedFields :
         LET r == Insert(fields, fieldsKeys, slot, field) IN
         /\ fields' = r.slots
         /\ fieldsKeys' = r.keys
         /\ ret' = Called("insert", [slot |-> slot, field |-> field],
                          IF r.ok THEN "this" ELSE "error", r.error)
    /\ UNCHANGED <<phase, template, overrides, bundle, l10nBundles, passCore,
                   props, type, transitType, l10nTranslations, calls,
                   generated, factory>>

-----------------------------------------------------------------------------
(* generate() *)

\* the props without the color keys whose value is set and is no RGB string
RECURSIVE DropInvalidColors(_, _)
DropInvalidColors(p, colors) ==
    IF colors = <<>> THEN p
    ELSE LET v == Head(colors)
             q == IF Truthy(Get(p, v)) /\ ~IsValidRGB(Get(p, v))
                  THEN Del(p, v) ELSE p
         IN DropInvalidColors(q, Tail(colors))

\* the props as _patch leaves them
PatchedProps(p) == IF Len(p) > 0 THEN DropInvalidColors(p, PassColors) ELSE p

\* passFile after Object.assign(passFile, this[passProps])
PatchedFile(passFile, p) ==
    IF Len(p) > 0 THEN Assign(passFile, PatchedProps(p)) ELSE passFile

\* passFile[type]["transitType"] = transit
WithTransitType(passFile, passType, transit) ==
    [i \in 1..Len(passFile) |->
        IF passFile[i].k = passType
        THEN [passFile[i] EXCEPT !.o.transitType = transit]
        ELSE passFile[i]]

\* WithFields leaving the field lists of the model in place
WithModelFields(passFile, passType, slots) == passFile

\* passFile[type][field] = this[field], for the five slots
WithFields(passFile, passType, slots) ==
    [i \in 1..Len(passFile) |->
        IF passFile[i].k = passType
        THEN [passFile[i] EXCEPT
                !.o = slots @@ [transitType |-> passFile[i].o.transitType]]
        ELSE passFile[i]]

\* Patch asking every category for a transit type
PatchRequiringTransit(passCoreBuffer, p, passType, transit, slots) ==
    LET passFile ==
          WithFields(PatchedFile(JsonParse(passCoreBuffer), p), passType, slots)
    IN  [props |-> PatchedProps(p),
         ok |-> Truthy(transit),
         error |-> "TRSTYPE_REQUIRED",
         buffer |-> JsonStringify(WithTransitType(passFile, passType, transit))]

\* _patch(passCoreBuffer): the props it leaves, and the error it throws or
\* the buffer it returns
Patch(passCoreBuffer, p, passType, transit, slots) ==
    LET passFile ==
          WithFields(PatchedFile(JsonParse(passCoreBuffer), p), passType, slots)
    IN  [props |-> PatchedProps(p),
         ok |-> ~(passType = "boardingPass" /\ ~Truthy(transit)),
         error |-> "TRSTYPE_REQUIRED",
         buffer |-> JsonStringify(WithTransitType(passFile, passType, transit))]

\* this.bundle after the personalization check
PrunePersonalization(b, p) ==
    IF ~Truthy(Get(p, "nfc")) /\ "personalization.json" \in DOMAIN b
    THEN DeletePersonalization(b,
            GetAllFilesWithName("personalizationLogo", DOMAIN b))
    ELSE b

\* generateStringFile(translations): one line per placeholder
GenerateStringFile(translations) ==
    [i \in 1..Len(translations) |->
        <<"line", translations[i][1], translations[i][2]>>]

\* the staged languages whose rendered strings are not empty
Rendered(translationsByLang) ==
    {l \in DOMAIN translationsByLang :
        Len(GenerateStringFile(translationsByLang[l])) > 0}

\* this.l10nBundles after the loop over the staged languages: the rendered
\* strings of a language are appended to the pass.strings of its folder, the
\* folder created when missing. (The languages are visited one by one; each
\* touches its own folder only, so the order does not show.)
MergeStrings(l10n, translationsByLang) ==
    LET dirOf == [l \in Rendered(translationsByLang) |-> LprojDir(l)]
        langOf(dir) == CHOOSE l \in DOMAIN dirOf : dirOf[l] = dir
        touched == {dirOf[l] : l \in DOMAIN dirOf}
        unit(dir) == IF dir \in DOMAIN l10n THEN l10n[dir] ELSE EmptyMap
        old(dir) == IF "pass.strings" \in DOMAIN unit(dir)
                    THEN unit(dir)["pass.strings"] ELSE <<>>
    IN  [dir \in (DOMAIN l10n) \cup touched |->
            IF dir \in touched
            THEN ("pass.strings" :>
                    old(dir) \o GenerateStringFile(translationsByLang[langOf(dir)]))
                 @@ unit(dir)
            ELSE l10n[dir]]

\* L10nPaths leaving out a staged language whose rendered strings are empty
L10nPathsOfRendered(l10n, translationsByLang) ==
    LET dirs == {LprojDir(l) : l \in Rendered(translationsByLang)} \cap DOMAIN l10n
        paths == {<<dir, f>> : dir \in dirs, f \in UNION {DOMAIN l10n[d] : d \in dirs}}
        present == {pr \in paths : pr[2] \in DOMAIN l10n[pr[1]]}
        at(path) == CHOOSE pr \in present : FullPath(pr[1], pr[2]) = path
    IN  [path \in {FullPath(pr[1], pr[2]) : pr \in present} |->
            l10n[at(path)[1]][at(path)[2]]]

\* the localization files the loop assigns to the final bundle: every file
\* of the folder of every staged language, under its pass-relative path
L10nPaths(l10n, translationsByLang) ==
    LET dirs == {LprojDir(l) : l \in DOMAIN translationsByLang} \cap DOMAIN l10n
        paths == {<<dir, f>> : dir \in dirs, f \in UNION {DOMAIN l10n[d] : d \in dirs}}
        present == {pr \in paths : pr[2] \in DOMAIN l10n[pr[1]]}
        at(path) == CHOOSE pr \in present : FullPath(pr[1], pr[2]) = path
    IN  [path \in {FullPath(pr[1], pr[2]) : pr \in present} |->
            l10n[at(path)[1]][at(path)[2]]]

\* Object.assign(finalBundle, bundleRelativeL10NPaths)
FinalBundle(b, l10n, translationsByLang) ==
    L10nPaths(l10n, translationsByLang) @@ b

\* the digest of a buffer
Sha1(buffer) == <<"sha1", buffer>>

\* ManifestOf digesting the root files only, not the localization files
ManifestOfRootFiles(finalBundle) ==
    [fileName \in {f \in DOMAIN finalBundle :
                     \A l \in Langs, g \in {"pass.strings", "logo.png"} :
                        f # FullPath(LprojDir(l), g)} |->
        Sha1(finalBundle[fileName])]

\* the reduce over the final bundle: file name -> digest
ManifestOf(finalBundle) ==
    [fileName \in DOMAIN finalBundle |-> Sha1(finalBundle[fileName])]

\* Signature.create(manifest, certificates)
SignatureCreate(manifest) == <<"pkcs7", manifest>>

\* Buffer.from(JSON.stringify(manifest))
ManifestJson(manifest) == <<"json", manifest>>

\* Archive with a signature made before the localization files were merged
\* into the final bundle
ArchiveSignedBeforeMerge(finalBundle, manifest) ==
    finalBundle
        @@ ("signature" :> SignatureCreate(ManifestOfRootFiles(finalBundle)))
        @@ ("manifest.json" :> ManifestJson(manifest))

\* the entries of the archive: the final bundle, then signature and manifest
Archive(finalBundle, manifest) ==
    finalBundle @@ ("signature" :> SignatureCreate(manifest))
                @@ ("manifest.json" :> ManifestJson(manifest))

generate ==
    /\ phase = "live"
    /\ generated < MaxGenerate
    /\ generated' = generated + 1
    /\ LET patched == Patch(bundle["pass.json"], props, type, transitType, fields)
           patchedBundle == [bundle EXCEPT !["pass.json"] = patched.buffer]
           pruned == PrunePersonalization(patchedBundle, patched.props)
           merged == MergeStrings(l10nBundles, l10nTranslations)
           finalBundle == FinalBundle(pruned, merged, l10nTranslations)
       IN  /\ props' = patched.props
           /\ IF patched.ok
              THEN /\ bundle' = pruned
                   /\ l10nBundles' = merged
                   /\ ret' = Returned("generate", "stream", "",
                                 Archive(finalBundle, ManifestOf(finalBundle)))
              ELSE /\ UNCHANGED <<bundle, l10nBundles>>
                   /\ ret' = Threw("generate", patched.error)
    /\ UNCHANGED <<phase, template, overrides, passCore, type, transitType,
                   l10nTranslations, fields, fieldsKeys, calls, factory>>

-----------------------------------------------------------------------------
(* createPass, the factory of src/src/pass.ts *)

\* the options createPass is called with: none, or a model (a value that is
\* neither a path nor an object, a folder path, an object of buffers) and
\* certificates
FactoryOptions ==
    { [empty |-> TRUE, model |-> "", certificates |-> ""] }
    \cup { [empty |-> FALSE, model |-> m, certificates |-> c] :
             m \in {"invalid", "folder", "buffers"}, c \in {"valid", "invalid"} }

\* the getModelContents of the factory file: it looks for pass.json and an
\* icon among the keys of the PartitionedBundle its reader returned, which
\* are bundle and l10nBundle; its reader of buffers reads rawBundle inside
\* the expression that initializes it
FactoryGetModelContents(model, readDirOk) ==
    LET modelFiles == {"bundle", "l10nBundle"}
    IN  IF model = "invalid" THEN "failed"
        ELSE IF model = "buffers" THEN "failed"
        ELSE IF ~readDirOk THEN "failed"
        ELSE IF ~("pass.json" \in modelFiles
                    /\ \E file \in modelFiles : Includes(file, "icon"))
        THEN "failed"
        ELSE "ok"

\* readCertificatesFromOptions(options.certificates)
FactoryReadCertificates(certificates) ==
    IF certificates = "valid" THEN "ok" ELSE "failed"

\* createPass(options): the try/catch around the two loads has an empty
\* catch, and `new Pass()` follows it whatever the loads did. That call
\* passes no options, which the constructor does not accept.
CreatePass(options, readDirOk) ==
    IF options.empty
    THEN [called |-> TRUE, modelLoad |-> "", certLoad |-> "",
          constructing |-> FALSE, error |-> "no options were passed",
          returned |-> FALSE]
    ELSE LET made == NewPass(template, <<>>, FALSE)
         IN  [called |-> TRUE,
              modelLoad |-> FactoryGetModelContents(options.model, readDirOk),
              certLoad |-> FactoryReadCertificates(options.certificates),
              constructing |-> TRUE,
              error |-> made.error,
              returned |-> made.ok]

createPass ==
    /\ phase = "start"
    /\ ~factory.called
    /\ \E options \in FactoryOptions, readDirOk \in BOOLEAN :
         /\ factory' = CreatePass(options, readDirOk)
         /\ phase' = IF factory'.returned THEN "live" ELSE "dead"
         /\ ret' = IF factory'.returned
                   THEN Returned("createPass", "this", "", EmptyMap)
                   ELSE Threw("createPass", factory'.error)
    /\ UNCHANGED <<template, overrides, passVars>>

Next ==
    \/ LoadModel
    \/ Construct
    \/ createPass
    \/ localize
    \/ nfc
    \/ setTransitType
    \/ generate

Spec == Init /\ [][Next]_vars

\* the life of an instance made from a template that declares display
\* fields, and whose caller inserts fields
LoadFieldModel == LoadModelFrom(FieldModels)

NextFields ==
    \/ LoadFieldModel
    \/ Construct
    \/ insertField
    \/ generate

SpecFields == Init /\ [][NextFields]_vars

\* the life of an instance whose builder methods are called with valid and
\* with invalid arguments
LoadBuilderModel == LoadModelFrom(BuilderModels)

ConstructPlain == ConstructWith({<<>>, << Scalar("description", "ovr description") >>})

NextBuilders ==
    \/ LoadBuilderModel
    \/ ConstructPlain
    \/ beacons
    \/ locations
    \/ barcodes
    \/ barcode
    \/ expiration
    \/ relevantDate
    \/ nfcCall
    \/ transitTypeCall

SpecBuilders == Init /\ [][NextBuilders]_vars

\* the life of an instance whose barcodes are set and chosen from
NextBarcodes ==
    \/ LoadBuilderModel
    \/ ConstructPlain
    \/ barcodes
    \/ barcode

SpecBarcodes == Init /\ [][NextBarcodes]_vars

\* the loading of a model from a folder or from buffers, and the
\* construction of an instance from it
NextLoader ==
    \/ getModelContents
    \/ ConstructPlain

SpecLoader == Init /\ [][NextLoader]_vars

-----------------------------------------------------------------------------
(* What the claims speak of *)

\* the last call was a generate() that returned its stream
GenStream == ret.op = "generate" /\ ret.kind = "stream"

\* the files archived by generate() other than manifest.json and signature
FinalFiles == (DOMAIN ret.archive) \ {"manifest.json", "signature"}

\* the manifest read back from the archived manifest.json
ArchivedManifest == ret.archive["manifest.json"][2]

\* the metadata file read back from the archived pass.json
Metadata == JsonParse(ret.archive["pass.json"])

\* the pass.strings of a language folder of the template, empty if none
TemplateStrings(lang) ==
    IF LprojDir(lang) \in DOMAIN template.l10nBundle
       /\ "pass.strings" \in DOMAIN template.l10nBundle[LprojDir(lang)]
    THEN template.l10nBundle[LprojDir(lang)]["pass.strings"]
    ELSE <<>>

\* the files of a language folder of the template, none if it has no folder
TemplateFolder(lang) ==
    IF LprojDir(lang) \in DOMAIN template.l10nBundle
    THEN template.l10nBundle[LprojDir(lang)]
    ELSE EmptyMap

\* the archived files of a language folder, by file name
ArchivedFolder(lang) ==
    LET names == {f \in {"pass.strings", "logo.png"} :
                    FullPath(LprojDir(lang), f) \in DOMAIN ret.archive}
    IN  [f \in names |-> ret.archive[FullPath(LprojDir(lang), f)]]

-----------------------------------------------------------------------------
(* C1 *)

\* C1: after a successful generate(), every archived file other than
\* manifest.json and signature has a manifest entry under exactly its archive
\* path, and the entry is the digest of the bytes archived for it; the
\* manifest has no other entry.
C1_ManifestIntegrity ==
    GenStream =>
        /\ DOMAIN ArchivedManifest = FinalFiles
        /\ \A f \in FinalFiles : ArchivedManifest[f] = Sha1(ret.archive[f])

\* a generate() whose localization merge changed the bytes of a pass.strings
\* of the template and whose patch changed pass.json
C1_Witness ==
    /\ GenStream
    /\ TemplateStrings("fr") # <<>>
    /\ FullPath("fr.lproj", "pass.strings") \in FinalFiles
    /\ ret.archive[FullPath("fr.lproj", "pass.strings")] # TemplateStrings("fr")
    /\ ret.archive["pass.json"] # template.bundle["pass.json"]
    /\ ArchivedManifest[FullPath("fr.lproj", "pass.strings")]
         = Sha1(ret.archive[FullPath("fr.lproj", "pass.strings")])

-----------------------------------------------------------------------------
(* C2 *)

AllWhitelisted(ovr) == \A i \in 1..Len(ovr) : ovr[i].k \in OverridesWhitelist

IsColorKey(key) == \E i \in 1..Len(PassColors) : PassColors[i] = key

-----------------------------------------------------------------------------
(* C3 *)

\* C3: generate() throws the transit-type-required error exactly when the
\* category is boardingPass and no transit type is set at the call, and
\* returns its stream otherwise; the constructor never throws that error.
C3_TransitRequired ==
    /\ ret.op = "generate" =>
          /\ (ret.kind = "error" /\ ret.error = "TRSTYPE_REQUIRED")
                <=> (type = "boardingPass" /\ ~Truthy(transitType))
          /\ ret.kind = "stream"
                <=> ~(type = "boardingPass" /\ ~Truthy(transitType))
    /\ ret.op = "new Pass" => ret.error # "TRSTYPE_REQUIRED"

\* a boarding pass whose template has no transit type, given one through
\* the setter, and generated
C3_Witness ==
    /\ GenStream
    /\ type = "boardingPass"
    /\ GetNested(passCore, "boardingPass").transitType = Undef
    /\ transitType = "PKTransitTypeBus"
    /\ GetNested(Metadata, "boardingPass").transitType = "PKTransitTypeBus"

-----------------------------------------------------------------------------
(* C4 *)

\* C4 as stated: when the pass declares no NFC payload, the files archived
\* by generate() include neither personalization.json nor a file whose name
\* starts with personalizationLogo.
C4_NoPersonalizationWithoutNfc ==
    (GenStream /\ ~Truthy(Get(props, "nfc"))) =>
        \A f \in FinalFiles :
            f # "personalization.json" /\ ~StartsWith(f, "personalizationLogo")

-----------------------------------------------------------------------------
(* C5 *)

\* C5 as stated: the archive has an entry <lang>.lproj/<name> for every file
\* of every language folder of the template.
C5_Original ==
    GenStream =>
        \A l \in Langs : \A f \in DOMAIN TemplateFolder(l) :
            FullPath(LprojDir(l), f) \in DOMAIN ret.archive

\* C5 as amended: the archive has an entry <lang>.lproj/<name> for every file
\* of a language folder of the template exactly when that language was
\* staged through localize() (with any mapping, an empty one too) before
\* generate(); the files of a folder whose language was never staged are not
\* archived.
C5_StagedFoldersArchived ==
    GenStream =>
        \A l \in Langs : \A f \in DOMAIN TemplateFolder(l) :
            FullPath(LprojDir(l), f) \in DOMAIN ret.archive
                <=> l \in DOMAIN l10nTranslations

\* a generate() with a language staged with an empty mapping, whose folder
\* in the template has a file
C5_Witness ==
    /\ GenStream
    /\ "fr" \in DOMAIN l10nTranslations
    /\ l10nTranslations["fr"] = <<>>
    /\ "logo.png" \in DOMAIN TemplateFolder("fr")
    /\ FullPath("fr.lproj", "logo.png") \in DOMAIN ret.archive

-----------------------------------------------------------------------------
(* C6 *)

\* C6 as stated: for every language staged with a non-empty mapping, the
\* archived <lang>.lproj/pass.strings is the template's pass.strings of that
\* language (empty if none) followed by the newly rendered bytes.
C6_TemplateThenRendered ==
    GenStream =>
        \A l \in Rendered(l10nTranslations) :
            /\ FullPath(LprojDir(l), "pass.strings") \in DOMAIN ret.archive
            /\ ret.archive[FullPath(LprojDir(l), "pass.strings")]
                 = TemplateStrings(l) \o GenerateStringFile(l10nTranslations[l])

-----------------------------------------------------------------------------
(* C7 *)

\* C7 as stated: what generate() emits for a staged language is decided by
\* the template and the mapping staged last: with an empty mapping, the
\* template's files of that language with their bytes unchanged and nothing
\* else; with a non-empty mapping, the same files with the rendering of that
\* mapping alone appended to pass.strings.
C7_LastMappingOnly ==
    GenStream =>
        \A l \in DOMAIN l10nTranslations :
            ArchivedFolder(l) =
                IF l10nTranslations[l] = <<>>
                THEN TemplateFolder(l)
                ELSE ("pass.strings" :>
                        TemplateStrings(l) \o GenerateStringFile(l10nTranslations[l]))
                     @@ TemplateFolder(l)

-----------------------------------------------------------------------------
(* C8 *)

\* C8 as stated: the metadata file serialized by generate() has no color key
\* whose value is not a valid RGB string.
C8_NoInvalidColorSerialized ==
    GenStream =>
        \A i \in 1..Len(PassColors) :
            Has(Metadata, PassColors[i]) => IsValidRGB(Get(Metadata, PassColors[i]))

-----------------------------------------------------------------------------
(* C9 *)

\* C9 as stated: when loading the model or the certificates fails,
\* createPass ends with an error, returns no Pass, and has not started to
\* construct one; construction starts only after both loads succeeded.
C9_FailFast ==
    factory.called =>
        /\ (factory.modelLoad = "failed" \/ factory.certLoad = "failed") =>
              (factory.error # "" /\ ~factory.returned /\ ~factory.constructing)
        /\ factory.constructing =>
              (factory.modelLoad = "ok" /\ factory.certLoad = "ok")

-----------------------------------------------------------------------------
(* C10 *)

\* the template's pass.json has a key that is one of the five categories
HasCategoryKey(passJson) ==
    \E i \in 1..Len(passJson) : passJson[i].k \in PassTypes

\* C10 as stated: a constructed Pass has a category that is one of the five
\* names, and a pass.json with no key equal to one of them makes the
\* constructor throw.
C10_CategoryInClosedSet ==
    /\ phase = "live" => type \in PassTypes
    /\ (ret.op = "new Pass" /\ JsonParses(template.bundle["pass.json"])
          /\ ~HasCategoryKey(JsonParse(template.bundle["pass.json"])))
        => ret.kind = "error"

-----------------------------------------------------------------------------
(* C11 *)

\* the keys of the fields the five slots hold
KeysInSlots(slots) ==
    UNION { {slots[n][i].key : i \in 1..Len(slots[n])} : n \in FieldSlots }

\* the category object of the metadata file written by generate()
MetadataCategory == GetNested(Metadata, type)

\* C11: the insertion of a field whose key is held by any of the five slots
\* fails with DuplicateKey and leaves every slot and the shared key set as
\* they were, an insertion that succeeds appends the field to its slot, and
\* the metadata file written by generate() has, under each slot name of the
\* category object, exactly the sequence the slot holds.
C11_DuplicateKeyAndVerbatim ==
    /\ [](GenStream =>
            \A n \in FieldSlots : SlotOf(MetadataCategory, n) = fields[n])
    /\ [][ret'.op = "insert" =>
            IF ret'.arg.field.key \in KeysInSlots(fields)
            THEN /\ ret'.kind = "error"
                 /\ ret'.error = "DuplicateKey"
                 /\ UNCHANGED <<fields, fieldsKeys>>
            ELSE /\ ret'.kind = "this"
                 /\ fields' = [fields EXCEPT ![ret'.arg.slot] =
                                  Append(@, ret'.arg.field)]
          ]_vars

\* the insertion into the header slot of a key the template has in the
\* primary slot has just failed, after a generate() and after the insertion
\* of a fresh key into the back slot went through
C11_Witness ==
    /\ ret.op = "insert" /\ ret.kind = "error" /\ ret.error = "DuplicateKey"
    /\ ret.arg.slot = "headerFields" /\ ret.arg.field.key = "k1"
    /\ fields["primaryFields"] = <<Field("k2", "v2"), Field("k1", "v1")>>
    /\ fields["backFields"] = <<Field("k3", "v3"), Field("k4", "x4")>>
    /\ fields["headerFields"] = <<>>
    /\ generated = 1

-----------------------------------------------------------------------------
(* C12 *)

\* the single-barcode field of the props: no element, or the one barcode
SingleBarcode(p) ==
    IF Has(p, "barcode") THEN GetNested(p, "barcode").items ELSE <<>>

\* the first of the barcodes with the format, as a list of at most one
FirstOfFormat(list, format) ==
    LET hits == SelectSeq(list, LAMBDA b : b.format = format)
    IN  IF hits = <<>> THEN <<>> ELSE <<Head(hits)>>

\* C12: a call barcode(format) returns without raising; when it changes the
\* single-barcode field for a format that is not null, the field becomes an
\* entry of the barcodes set at the call whose format is the one asked for;
\* barcode("PKBarcodeFormatCode128") leaves the props as they were, also
\* with a Code128 entry among the barcodes; barcode("PKBarcodeFormatQR")
\* with a QR entry among the barcodes sets the field to the first QR entry;
\* and with no barcodes set a format leaves the props as they were.
C12_BarcodeOfMatchingFormat ==
    [][ret'.op = "barcode" =>
        LET chosen == ret'.arg
            current == ItemsOf(props, "barcodes")
        IN  /\ ret'.kind = "this"
            /\ ItemsOf(props', "barcodes") = current
            /\ (chosen # JsNull /\ SingleBarcode(props') # SingleBarcode(props)) =>
                  /\ chosen.t = "string"
                  /\ \E i \in 1..Len(current) :
                        /\ SingleBarcode(props') = <<current[i]>>
                        /\ current[i].format = chosen.value
            /\ chosen = JsString("PKBarcodeFormatCode128") => props' = props
            /\ (chosen = JsString("PKBarcodeFormatQR")
                  /\ FirstOfFormat(current, "PKBarcodeFormatQR") # <<>>) =>
                  SingleBarcode(props') = FirstOfFormat(current, "PKBarcodeFormatQR")
            /\ (chosen # JsNull /\ current = <<>>) => props' = props
      ]_vars

\* barcode("PKBarcodeFormatQR") was called after barcodes("12345") and the
\* single-barcode field is the QR entry, a Code128 entry being among the
\* barcodes
C12_Witness ==
    /\ ret.op = "barcode" /\ ret.arg = JsString("PKBarcodeFormatQR")
    /\ Len(ItemsOf(props, "barcodes")) = 4
    /\ ItemsOf(props, "barcodes")[4] = BarcodeObject("PKBarcodeFormatCode128", "12345")
    /\ SingleBarcode(props) = <<BarcodeObject("PKBarcodeFormatQR", "12345")>>

-----------------------------------------------------------------------------
(* C13 *)

\* the four entries barcodes(message) is said to set
FourBarcodes(message) ==
    << BarcodeObject("PKBarcodeFormatQR", message),
       BarcodeObject("PKBarcodeFormatPDF417", message),
       BarcodeObject("PKBarcodeFormatAztec", message),
       BarcodeObject("PKBarcodeFormatCode128", message) >>

\* C13: a call barcodes(message) with a string that is not empty sets the
\* barcodes property to the four entries QR, PDF417, Aztec, Code128 in this
\* order, each with the message, whatever the barcodes were before, and
\* changes no other property; barcodes("") leaves the props as they were.
C13_FourBarcodesFromMessage ==
    [][(ret'.op = "barcodes" /\ ret'.arg # <<>> /\ ret'.arg[1].t = "string") =>
        LET message == ret'.arg[1].value
        IN  /\ ret'.kind = "this"
            /\ IF message = "" THEN props' = props
               ELSE /\ ItemsOf(props', "barcodes") = FourBarcodes(message)
                    /\ Del(props', "barcodes") = Del(props, "barcodes")
      ]_vars

\* barcodes("12345") was called on an instance whose single-barcode field
\* had been chosen from other barcodes, set before, and the barcodes are the
\* four entries with the message
C13_Witness ==
    /\ ret.op = "barcodes" /\ ret.arg = <<JsString("12345")>>
    /\ calls = 3
    /\ SingleBarcode(props) = <<BarcodeObject("PKBarcodeFormatQR", "m")>>
    /\ ItemsOf(props, "barcodes") = FourBarcodes("12345")

-----------------------------------------------------------------------------
(* C16 *)

\* none of the elements is valid for the schema, and the first is not the
\* null that resets the property
NoneValid(data, schemaName) ==
    /\ data # <<>> => data[1] # JsNull
    /\ \A i \in 1..Len(data) : ~IsValid(data[i], schemaName)

\* the call seen as r, made with props p, had an argument that fails
\* validation
FailsValidation(r, p) ==
    \/ r.op = "beacons" /\ NoneValid(r.arg, "Beacon")
    \/ r.op = "locations" /\ NoneValid(r.arg, "Location")
    \/ /\ r.op = "barcodes" /\ NoneValid(r.arg, "Barcode")
       /\ r.arg # <<>> => r.arg[1].t # "string"
    \/ r.op = "nfc" /\ r.arg = NfcInvalid
    \/ r.op \in {"expiration", "relevantDate"} /\ r.arg.t # "Date" /\ r.arg # JsNull
    \/ /\ r.op = "barcode" /\ r.arg.t = "string"
       /\ FirstOfFormat(ItemsOf(p, "barcodes"), r.arg.value) = <<>>
    \/ r.op = "transitType" /\ r.arg \notin TransitTypes

\* C16: a builder call whose argument fails validation returns without
\* raising and leaves the props and the transit subtype as they were.
C16_InvalidArgumentIgnored ==
    [][FailsValidation(ret', props) =>
        /\ ret'.kind = "this"
        /\ props' = props
        /\ transitType' = transitType
      ]_vars

-----------------------------------------------------------------------------
(* C14 *)

\* the model is a folder that was read, or an object of buffers with keys
IsModel(model) ==
    \/ model.kind = "folder" /\ model.readable
    \/ model.kind = "buffers" /\ DOMAIN model.files # {}

\* the names of the files at the root of the model that have contents
NamesOf(model) ==
    IF model.kind = "folder" THEN DOMAIN model.root
    ELSE {f \in DOMAIN model.files :
            ~Includes(f, ".lproj") /\ f \notin model.nulls}

\* the model has no pass.json or no file whose name starts with icon
Lacking(model) ==
    "pass.json" \notin NamesOf(model)
        \/ ~\E f \in NamesOf(model) : StartsWith(f, "icon")

-----------------------------------------------------------------------------
(* C15 *)

\* the manifest the archived signature was made over
SignedManifest == ret.archive["signature"][2]

\* the staged languages whose strings generate() rendered
RenderedLangs == Rendered(l10nTranslations)

\* C15: what a generate() that returned its stream archived shows the
\* stages in their order. The manifest was digested after the patch, the
\* pruning and the merge: its entry for pass.json is the digest of the
\* patched metadata, which carries the transit subtype of the instance; it
\* has no entry for personalization.json in a pass without NFC; its entry
\* for the pass.strings of a rendered language is the digest of the merged
\* strings. The signature was made after the digesting, over the mapping
\* that manifest.json serializes. Nothing changed afterwards: the archived
\* files other than signature and manifest.json are those of the manifest,
\* with the bytes that were digested.
C15_StagesInOrder ==
    GenStream =>
        /\ ArchivedManifest["pass.json"] = Sha1(bundle["pass.json"])
        /\ MetadataCategory.transitType = transitType
        /\ ~Truthy(Get(props, "nfc")) =>
              "personalization.json" \notin DOMAIN ArchivedManifest
        /\ \A l \in RenderedLangs :
              /\ FullPath(LprojDir(l), "pass.strings") \in DOMAIN ArchivedManifest
              /\ ArchivedManifest[FullPath(LprojDir(l), "pass.strings")]
                    = Sha1(l10nBundles[LprojDir(l)]["pass.strings"])
        /\ SignedManifest = ArchivedManifest
        /\ ret.archive["manifest.json"] = ManifestJson(SignedManifest)
        /\ DOMAIN SignedManifest = FinalFiles
        /\ \A f \in FinalFiles : SignedManifest[f] = Sha1(ret.archive[f])

\* a generate() of a boarding pass that merged rendered strings into the
\* pass.strings of the template: the signed manifest digests the patched
\* metadata and the merged strings
C15_Witness ==
    /\ GenStream
    /\ type = "boardingPass"
    /\ "fr" \in RenderedLangs
    /\ TemplateStrings("fr") # <<>>
    /\ ret.archive["pass.json"] # template.bundle["pass.json"]
    /\ SignedManifest[FullPath("fr.lproj", "pass.strings")]
         = Sha1(ret.archive[FullPath("fr.lproj", "pass.strings")])
    /\ ret.archive[FullPath("fr.lproj", "pass.strings")] # TemplateStrings("fr")

-----------------------------------------------------------------------------
(* C17 *)

\* the final file set of an archive, with its bytes
FilesOf(archive) == Without(archive, {"manifest.json", "signature"})

\* the manifest serialized in an archive
ManifestIn(archive) == archive["manifest.json"][2]

\* C17: a generate() leaves the staged translations and the localization
\* bundle of the instance as they were, and a generate() that follows a
\* generate() that returned its stream, with no call between them, returns
\* a stream with the same final file set and the same manifest.
C17_GenerateRepeatable ==
    [][(ret'.op = "generate" /\ generated' = generated + 1) =>
        /\ l10nTranslations' = l10nTranslations
        /\ l10nBundles' = l10nBundles
        /\ GenStream =>
              /\ ret'.kind = "stream"
              /\ FilesOf(ret'.archive) = FilesOf(ret.archive)
              /\ ManifestIn(ret'.archive) = ManifestIn(ret.archive)
      ]_vars

-----------------------------------------------------------------------------
(* C18 *)

\* C18: the transit subtype of an instance is empty or one of the closed
\* set of transit subtypes, and so is the transit subtype in the metadata
\* file written by generate().
C18_TransitTypeInClosedSet ==
    /\ phase = "live" => transitType \in TransitTypes \cup {""}
    /\ GenStream => MetadataCategory.transitType \in TransitTypes \cup {""}

====
